---- MODULE Spec2Model ----
(***************************************************************************)
(* Model of beater/otlp/grpc.go: the monitored OTLP gRPC consumer.         *)
(*                                                                         *)
(*   - RegisterGRPCServices constructs a monitoredConsumer, installs it in *)
(*     the package-level slot currentMonitoredConsumer and registers it    *)
(*     with the OTLP receiver framework for traces and for metrics;        *)
(*   - monitoredConsumer.ConsumeTraces / ConsumeMetrics count every call   *)
(*     in the package-level monitoring maps around the downstream call;    *)
(*   - collectMetricsMonitoring reports the downstream consumer's stats of *)
(*     the consumer found in the slot.                                     *)
(*                                                                         *)
(* Every goroutine (a registration, a consume call, a report) is a process *)
(* with a program counter; one action is one atomic step of the code.      *)
(***************************************************************************)
EXTENDS Integers, Sequences, FiniteSets, TLC

\* Bounds of the model.
MaxRegs == 2        \* invocations of RegisterGRPCServices
MaxCalls == 2       \* invocations of ConsumeTraces / ConsumeMetrics
MaxReports == 1     \* invocations of collectMetricsMonitoring
MaxStat == 1        \* largest UnsupportedMetricsDropped a Stats() call returns

Regs == 1 .. MaxRegs          \* invocation r constructs consumer r
Calls == 1 .. MaxCalls
Reports == 1 .. MaxReports

\* Errors are chains of messages, outermost first; the nil error is the empty chain.
NoError == <<>>
Errors == {<<"e1">>, <<"e2">>}   \* error values of the collaborators
Panic == <<"panic">>             \* the downstream call panicked instead of returning
Unset == <<"unset">>             \* a local that has not been assigned yet

NoConsumer == 0                  \* the nil *monitoredConsumer

monitoringKeys ==
    {"RequestCount", "ResponseCount", "ResponseErrorsCount", "ResponseValidCount"}

gRPCMetricsMonitoringMap == "metrics"
gRPCTracesMonitoringMap == "traces"

\* errors.Wrap(err, msg): a new error that holds the message and the cause.
Wrap(err, msg) == <<msg>> \o err

VARIABLES
    counters,                    \* the two monitoring maps: map -> key -> count
    currentMonitoredConsumer,    \* the slot: NoConsumer or a consumer
    currentMonitoredConsumerMu,  \* the RWMutex: [writer (0: none), readers]
    installLog,                  \* history: the consumers assigned to the slot, in order
    reg,                         \* RegisterGRPCServices invocations
    call,                        \* Consume* invocations: ctx and data are the arguments,
                                 \* down the arguments of each downstream invocation
    rep                          \* collectMetricsMonitoring invocations

vars == <<counters, currentMonitoredConsumer, currentMonitoredConsumerMu,
          installLog, reg, call, rep>>

Init ==
    /\ counters = [m \in {gRPCMetricsMonitoringMap, gRPCTracesMonitoringMap} |->
                      [k \in monitoringKeys |-> 0]]
    /\ currentMonitoredConsumer = NoConsumer
    /\ currentMonitoredConsumerMu = [writer |-> 0, readers |-> {}]
    /\ installLog = <<>>
    /\ reg = [r \in Regs |-> [pc |-> "idle", traceErr |-> Unset,
                              metricsErr |-> Unset, result |-> Unset]]
    /\ call = [i \in Calls |-> [pc |-> "idle", method |-> "none", c |-> NoConsumer,
                                ctx |-> <<>>, data |-> <<>>, down |-> <<>>,
                                err |-> Unset, ret |-> Unset, events |-> <<>>]]
    /\ rep = [j \in Reports |-> [pc |-> "idle", c |-> NoConsumer, idx |-> 0,
                                 statsOf |-> NoConsumer, stats |-> <<>>,
                                 out |-> <<>>]]

\* monitoring.Int.Inc on one counter of one map: an atomic add.
Inc(map, key) == counters' = [counters EXCEPT ![map][key] = @ + 1]

SetReg(r, f) == reg' = [reg EXCEPT ![r] = f]
SetCall(i, f) == call' = [call EXCEPT ![i] = f]
SetRep(j, f) == rep' = [rep EXCEPT ![j] = f]

\* Invocations are interchangeable: they are started in the order of their numbers.
InTurn(procs, p) == IF p = 1 THEN TRUE ELSE procs[p - 1].pc # "idle"

(***************************************************************************)
(* RegisterGRPCServices and setCurrentMonitoredConsumer                    *)
(***************************************************************************)

\* Mutant: every registration starts from fresh counters.
RegisterBeginResetsCounters(r) ==
    /\ reg[r].pc = "idle"
    /\ InTurn(reg, r)
    /\ SetReg(r, [reg[r] EXCEPT !.pc = "lock"])
    /\ counters' = [m \in DOMAIN counters |-> [k \in monitoringKeys |-> 0]]
    /\ UNCHANGED <<currentMonitoredConsumer, currentMonitoredConsumerMu,
                   installLog, call, rep>>

\* Lines 55-63: construct the consumer (consumer r) and call
\* setCurrentMonitoredConsumer, which is about to take the write lock.
RegisterBegin(r) ==
    /\ reg[r].pc = "idle"
    /\ InTurn(reg, r)
    /\ SetReg(r, [reg[r] EXCEPT !.pc = "lock"])
    /\ UNCHANGED <<counters, currentMonitoredConsumer, currentMonitoredConsumerMu,
                   installLog, call, rep>>

\* Line 123: currentMonitoredConsumerMu.Lock() returns once no reader and no
\* writer holds the mutex.
setCurrentLock(r) ==
    /\ reg[r].pc = "lock"
    /\ currentMonitoredConsumerMu.writer = 0
    /\ currentMonitoredConsumerMu.readers = {}
    /\ currentMonitoredConsumerMu' = [currentMonitoredConsumerMu EXCEPT !.writer = r]
    /\ SetReg(r, [reg[r] EXCEPT !.pc = "assign"])
    /\ UNCHANGED <<counters, currentMonitoredConsumer, installLog, call, rep>>

\* Mutant: the slot keeps the first consumer it was given.
setCurrentAssignKeepsFirst(r) ==
    /\ reg[r].pc = "assign"
    /\ currentMonitoredConsumer' =
          IF currentMonitoredConsumer = NoConsumer THEN r ELSE currentMonitoredConsumer
    /\ installLog' = Append(installLog, r)
    /\ SetReg(r, [reg[r] EXCEPT !.pc = "unlock"])
    /\ UNCHANGED <<counters, currentMonitoredConsumerMu, call, rep>>

\* Line 125: currentMonitoredConsumer = c.
setCurrentAssign(r) ==
    /\ reg[r].pc = "assign"
    /\ currentMonitoredConsumer' = r
    /\ installLog' = Append(installLog, r)
    /\ SetReg(r, [reg[r] EXCEPT !.pc = "unlock"])
    /\ UNCHANGED <<counters, currentMonitoredConsumerMu, call, rep>>

\* Line 124: the deferred currentMonitoredConsumerMu.Unlock(); setCurrent returns.
setCurrentUnlock(r) ==
    /\ reg[r].pc = "unlock"
    /\ currentMonitoredConsumerMu' = [currentMonitoredConsumerMu EXCEPT !.writer = 0]
    /\ SetReg(r, [reg[r] EXCEPT !.pc = "regTrace"])
    /\ UNCHANGED <<counters, currentMonitoredConsumer, installLog, call, rep>>

\* Mutant: a failed trace registration is wrapped but not returned; the metrics
\* registration follows.
RegisterTraceGoesOn(r) ==
    /\ reg[r].pc = "regTrace"
    /\ \E e \in {NoError} \cup Errors :
          SetReg(r, IF e # NoError
                    THEN [reg[r] EXCEPT !.pc = "regMetrics", !.traceErr = e,
                             !.result = Wrap(e, "failed to register OTLP trace receiver")]
                    ELSE [reg[r] EXCEPT !.pc = "regMetrics", !.traceErr = e])
    /\ UNCHANGED <<counters, currentMonitoredConsumer, currentMonitoredConsumerMu,
                   installLog, call, rep>>

\* Lines 65-69: otlpreceiver.RegisterTraceReceiver returns nil or an error; an
\* error is wrapped and returned at once.
RegisterTrace(r) ==
    /\ reg[r].pc = "regTrace"
    /\ \E e \in {NoError} \cup Errors :
          SetReg(r, IF e # NoError
                    THEN [reg[r] EXCEPT !.pc = "done", !.traceErr = e,
                             !.result = Wrap(e, "failed to register OTLP trace receiver")]
                    ELSE [reg[r] EXCEPT !.pc = "regMetrics", !.traceErr = e])
    /\ UNCHANGED <<counters, currentMonitoredConsumer, currentMonitoredConsumerMu,
                   installLog, call, rep>>

\* Mutant: a failed metrics registration puts the slot back to what it held before.
RegisterMetricsRollsBack(r) ==
    /\ reg[r].pc = "regMetrics"
    /\ \E e \in {NoError} \cup Errors :
          /\ SetReg(r, [reg[r] EXCEPT !.pc = "done", !.metricsErr = e,
                          !.result = IF e # NoError
                                     THEN Wrap(e, "failed to register OTLP metrics receiver")
                                     ELSE NoError])
          /\ currentMonitoredConsumer' =
                IF e = NoError THEN currentMonitoredConsumer
                ELSE IF Len(installLog) >= 2 THEN installLog[Len(installLog) - 1]
                ELSE NoConsumer
    /\ UNCHANGED <<counters, currentMonitoredConsumerMu, installLog, call, rep>>

\* Lines 70-73: otlpreceiver.RegisterMetricsReceiver returns nil or an error.
RegisterMetrics(r) ==
    /\ reg[r].pc = "regMetrics"
    /\ \E e \in {NoError} \cup Errors :
          SetReg(r, [reg[r] EXCEPT !.pc = "done", !.metricsErr = e,
                       !.result = IF e # NoError
                                  THEN Wrap(e, "failed to register OTLP metrics receiver")
                                  ELSE NoError])
    /\ UNCHANGED <<counters, currentMonitoredConsumer, currentMonitoredConsumerMu,
                   installLog, call, rep>>

setCurrentMonitoredConsumer(r) ==
    \/ setCurrentLock(r)
    \/ setCurrentAssign(r)
    \/ setCurrentUnlock(r)

RegisterGRPCServices(r) ==
    \/ RegisterBegin(r)
    \/ setCurrentMonitoredConsumer(r)
    \/ RegisterTrace(r)
    \/ RegisterMetrics(r)

\* The receivers of consumer c serve calls once its registration has returned
\* without error (the gRPC server cannot register services after Serve).
Serving(c) == reg[c].pc = "done" /\ reg[c].result = NoError

\* otel.Consumer.Stats(): a snapshot of the counts of the downstream consumer,
\* whatever they are at the time of the call.
StatsSnapshots == [UnsupportedMetricsDropped : 0 .. MaxStat]

\* The arguments the receiver passes to invocation i of a Consume* method: its
\* context and its pdata.Traces or pdata.Metrics.
Context(i) == <<"ctx", i>>
Payload(kind, i) == <<kind, i>>

(***************************************************************************)
(* monitoredConsumer.ConsumeTraces                                            *)
(***************************************************************************)

\* Mutant: the `defer` is missing, ResponseCount is incremented at once.
ConsumeTracesEnterNoDefer(i, c) ==
    /\ call[i].pc = "idle"
    /\ InTurn(call, i)
    /\ Serving(c)
    /\ counters' = [counters EXCEPT ![gRPCTracesMonitoringMap]["RequestCount"] = @ + 1,
                                    ![gRPCTracesMonitoringMap]["ResponseCount"] = @ + 1]
    /\ SetCall(i, [call[i] EXCEPT !.pc = "invoke", !.method = "ConsumeTraces", !.c = c,
                      !.ctx = Context(i), !.data = Payload("traces", i),
                      !.events = <<"RequestCount", "ResponseCount">>])
    /\ UNCHANGED <<currentMonitoredConsumer, currentMonitoredConsumerMu, installLog,
                   reg, rep>>

\* Lines 82-84: the receiver of consumer c invokes the method;
\* RequestCount.Inc(); the ResponseCount.Inc() is deferred.
ConsumeTracesEnter(i, c) ==
    /\ call[i].pc = "idle"
    /\ InTurn(call, i)
    /\ Serving(c)
    /\ Inc(gRPCTracesMonitoringMap, "RequestCount")
    /\ SetCall(i, [call[i] EXCEPT !.pc = "invoke", !.method = "ConsumeTraces", !.c = c,
                      !.ctx = Context(i), !.data = Payload("traces", i),
                      !.events = <<"RequestCount">>])
    /\ UNCHANGED <<currentMonitoredConsumer, currentMonitoredConsumerMu, installLog,
                   reg, rep>>

\* Mutant: the downstream consumer is given a fresh context.
ConsumeTracesDownstreamBackground(i) ==
    /\ call[i].pc = "invoke"
    /\ call[i].method = "ConsumeTraces"
    /\ \E e \in {NoError} \cup Errors \cup {Panic} :
          /\ SetCall(i, [call[i] EXCEPT !.pc = IF e = Panic THEN "panicking" ELSE "returned",
                            !.down = Append(@, [ctx |-> <<"context.Background">>, data |-> call[i].data]),
                            !.err = e, !.events = Append(@, "downstream")])
    /\ UNCHANGED <<counters, currentMonitoredConsumer, currentMonitoredConsumerMu,
                   installLog, reg, rep>>

\* Line 85: c.consumer.ConsumeTraces(ctx, traces) is invoked and returns nil or an
\* error, or panics.
ConsumeTracesDownstream(i) ==
    /\ call[i].pc = "invoke"
    /\ call[i].method = "ConsumeTraces"
    /\ \E e \in {NoError} \cup Errors \cup {Panic} :
          /\ SetCall(i, [call[i] EXCEPT !.pc = IF e = Panic THEN "panicking" ELSE "returned",
                            !.down = Append(@, [ctx |-> call[i].ctx, data |-> call[i].data]),
                            !.err = e, !.events = Append(@, "downstream")])
    /\ UNCHANGED <<counters, currentMonitoredConsumer, currentMonitoredConsumerMu,
                   installLog, reg, rep>>

\* Mutant: the error branch does not return and falls through to the valid count.
ConsumeTracesCountFallsThrough(i) ==
    /\ call[i].pc = "returned"
    /\ call[i].method = "ConsumeTraces"
    /\ IF call[i].err # NoError
       THEN /\ counters' = [counters EXCEPT
                               ![gRPCTracesMonitoringMap]["ResponseErrorsCount"] = @ + 1,
                               ![gRPCTracesMonitoringMap]["ResponseValidCount"] = @ + 1]
            /\ SetCall(i, [call[i] EXCEPT !.pc = "return", !.ret = NoError,
                              !.events = @ \o <<"ResponseErrorsCount", "ResponseValidCount">>])
       ELSE /\ Inc(gRPCTracesMonitoringMap, "ResponseValidCount")
            /\ SetCall(i, [call[i] EXCEPT !.pc = "return", !.ret = NoError,
                              !.events = Append(@, "ResponseValidCount")])
    /\ UNCHANGED <<currentMonitoredConsumer, currentMonitoredConsumerMu, installLog,
                   reg, rep>>

\* Lines 85-91: on an error ResponseErrorsCount.Inc(), the log record and
\* `return err`; otherwise ResponseValidCount.Inc() and `return nil`.
ConsumeTracesCount(i) ==
    /\ call[i].pc = "returned"
    /\ call[i].method = "ConsumeTraces"
    /\ IF call[i].err # NoError
       THEN /\ Inc(gRPCTracesMonitoringMap, "ResponseErrorsCount")
            /\ SetCall(i, [call[i] EXCEPT !.pc = "return", !.ret = call[i].err,
                              !.events = Append(@, "ResponseErrorsCount")])
       ELSE /\ Inc(gRPCTracesMonitoringMap, "ResponseValidCount")
            /\ SetCall(i, [call[i] EXCEPT !.pc = "return", !.ret = NoError,
                              !.events = Append(@, "ResponseValidCount")])
    /\ UNCHANGED <<currentMonitoredConsumer, currentMonitoredConsumerMu, installLog,
                   reg, rep>>

\* Mutant: ResponseCount.Inc() is not deferred and stands after the error return.
ConsumeTracesReturnSkipsOnError(i) ==
    /\ call[i].pc \in {"return", "panicking"}
    /\ call[i].method = "ConsumeTraces"
    /\ IF call[i].pc = "return" /\ call[i].err = NoError
       THEN /\ Inc(gRPCTracesMonitoringMap, "ResponseCount")
            /\ SetCall(i, [call[i] EXCEPT !.pc = "done",
                              !.events = @ \o <<"ResponseCount", "return">>])
       ELSE /\ UNCHANGED counters
            /\ SetCall(i, IF call[i].pc = "return"
                          THEN [call[i] EXCEPT !.pc = "done", !.events = Append(@, "return")]
                          ELSE [call[i] EXCEPT !.pc = "panicked",
                                   !.events = Append(@, "panic")])
    /\ UNCHANGED <<currentMonitoredConsumer, currentMonitoredConsumerMu, installLog,
                   reg, rep>>

\* Line 84, run as the function exits: the deferred ResponseCount.Inc(); then
\* the call returns its result, or the panic goes on up the stack.
ConsumeTracesReturn(i) ==
    /\ call[i].pc \in {"return", "panicking"}
    /\ call[i].method = "ConsumeTraces"
    /\ Inc(gRPCTracesMonitoringMap, "ResponseCount")
    /\ SetCall(i, IF call[i].pc = "return"
                  THEN [call[i] EXCEPT !.pc = "done",
                           !.events = @ \o <<"ResponseCount", "return">>]
                  ELSE [call[i] EXCEPT !.pc = "panicked",
                           !.events = @ \o <<"ResponseCount", "panic">>])
    /\ UNCHANGED <<currentMonitoredConsumer, currentMonitoredConsumerMu, installLog,
                   reg, rep>>

ConsumeTraces(i) ==
    \/ \E c \in Regs : ConsumeTracesEnter(i, c)
    \/ ConsumeTracesDownstream(i)
    \/ ConsumeTracesCount(i)
    \/ ConsumeTracesReturn(i)

(***************************************************************************)
(* monitoredConsumer.ConsumeMetrics                                            *)
(***************************************************************************)

\* Mutant: the `defer` is missing, ResponseCount is incremented at once.
ConsumeMetricsEnterNoDefer(i, c) ==
    /\ call[i].pc = "idle"
    /\ InTurn(call, i)
    /\ Serving(c)
    /\ counters' = [counters EXCEPT ![gRPCMetricsMonitoringMap]["RequestCount"] = @ + 1,
                                    ![gRPCMetricsMonitoringMap]["ResponseCount"] = @ + 1]
    /\ SetCall(i, [call[i] EXCEPT !.pc = "invoke", !.method = "ConsumeMetrics", !.c = c,
                      !.ctx = Context(i), !.data = Payload("metrics", i),
                      !.events = <<"RequestCount", "ResponseCount">>])
    /\ UNCHANGED <<currentMonitoredConsumer, currentMonitoredConsumerMu, installLog,
                   reg, rep>>

\* Mutant: the request is counted in the traces group.
ConsumeMetricsEnterWrongMap(i, c) ==
    /\ call[i].pc = "idle"
    /\ InTurn(call, i)
    /\ Serving(c)
    /\ Inc(gRPCTracesMonitoringMap, "RequestCount")
    /\ SetCall(i, [call[i] EXCEPT !.pc = "invoke", !.method = "ConsumeMetrics", !.c = c,
                      !.ctx = Context(i), !.data = Payload("metrics", i),
                      !.events = <<"RequestCount">>])
    /\ UNCHANGED <<currentMonitoredConsumer, currentMonitoredConsumerMu, installLog,
                   reg, rep>>

\* Lines 95-97: the receiver of consumer c invokes the method;
\* RequestCount.Inc(); the ResponseCount.Inc() is deferred.
ConsumeMetricsEnter(i, c) ==
    /\ call[i].pc = "idle"
    /\ InTurn(call, i)
    /\ Serving(c)
    /\ Inc(gRPCMetricsMonitoringMap, "RequestCount")
    /\ SetCall(i, [call[i] EXCEPT !.pc = "invoke", !.method = "ConsumeMetrics", !.c = c,
                      !.ctx = Context(i), !.data = Payload("metrics", i),
                      !.events = <<"RequestCount">>])
    /\ UNCHANGED <<currentMonitoredConsumer, currentMonitoredConsumerMu, installLog,
                   reg, rep>>

\* Line 98: c.consumer.ConsumeMetrics(ctx, metrics) is invoked and returns nil or an
\* error, or panics.
ConsumeMetricsDownstream(i) ==
    /\ call[i].pc = "invoke"
    /\ call[i].method = "ConsumeMetrics"
    /\ \E e \in {NoError} \cup Errors \cup {Panic} :
          /\ SetCall(i, [call[i] EXCEPT !.pc = IF e = Panic THEN "panicking" ELSE "returned",
                            !.down = Append(@, [ctx |-> call[i].ctx, data |-> call[i].data]),
                            !.err = e, !.events = Append(@, "downstream")])
    /\ UNCHANGED <<counters, currentMonitoredConsumer, currentMonitoredConsumerMu,
                   installLog, reg, rep>>

\* Mutant: the error is wrapped before it is returned.
ConsumeMetricsCountWraps(i) ==
    /\ call[i].pc = "returned"
    /\ call[i].method = "ConsumeMetrics"
    /\ IF call[i].err # NoError
       THEN /\ Inc(gRPCMetricsMonitoringMap, "ResponseErrorsCount")
            /\ SetCall(i, [call[i] EXCEPT !.pc = "return",
                              !.ret = Wrap(call[i].err, "ConsumeMetrics returned an error"),
                              !.events = Append(@, "ResponseErrorsCount")])
       ELSE /\ Inc(gRPCMetricsMonitoringMap, "ResponseValidCount")
            /\ SetCall(i, [call[i] EXCEPT !.pc = "return", !.ret = NoError,
                              !.events = Append(@, "ResponseValidCount")])
    /\ UNCHANGED <<currentMonitoredConsumer, currentMonitoredConsumerMu, installLog,
                   reg, rep>>

\* Lines 98-104: on an error ResponseErrorsCount.Inc(), the log record and
\* `return err`; otherwise ResponseValidCount.Inc() and `return nil`.
ConsumeMetricsCount(i) ==
    /\ call[i].pc = "returned"
    /\ call[i].method = "ConsumeMetrics"
    /\ IF call[i].err # NoError
       THEN /\ Inc(gRPCMetricsMonitoringMap, "ResponseErrorsCount")
            /\ SetCall(i, [call[i] EXCEPT !.pc = "return", !.ret = call[i].err,
                              !.events = Append(@, "ResponseErrorsCount")])
       ELSE /\ Inc(gRPCMetricsMonitoringMap, "ResponseValidCount")
            /\ SetCall(i, [call[i] EXCEPT !.pc = "return", !.ret = NoError,
                              !.events = Append(@, "ResponseValidCount")])
    /\ UNCHANGED <<currentMonitoredConsumer, currentMonitoredConsumerMu, installLog,
                   reg, rep>>

\* Line 97, run as the function exits: the deferred ResponseCount.Inc(); then
\* the call returns its result, or the panic goes on up the stack.
ConsumeMetricsReturn(i) ==
    /\ call[i].pc \in {"return", "panicking"}
    /\ call[i].method = "ConsumeMetrics"
    /\ Inc(gRPCMetricsMonitoringMap, "ResponseCount")
    /\ SetCall(i, IF call[i].pc = "return"
                  THEN [call[i] EXCEPT !.pc = "done",
                           !.events = @ \o <<"ResponseCount", "return">>]
                  ELSE [call[i] EXCEPT !.pc = "panicked",
                           !.events = @ \o <<"ResponseCount", "panic">>])
    /\ UNCHANGED <<currentMonitoredConsumer, currentMonitoredConsumerMu, installLog,
                   reg, rep>>

ConsumeMetrics(i) ==
    \/ \E c \in Regs : ConsumeMetricsEnter(i, c)
    \/ ConsumeMetricsDownstream(i)
    \/ ConsumeMetricsCount(i)
    \/ ConsumeMetricsReturn(i)

(***************************************************************************)
(* collectMetricsMonitoring and monitoredConsumer.collectMetricsMonitoring *)
(***************************************************************************)

\* What the monitoring.Visitor is told.
Marker(name) == [ev |-> name, ns |-> "", key |-> "", val |-> 0]
IntInNamespace(ns, key, val) == [ev |-> "ReportInt", ns |-> ns, key |-> key, val |-> val]

\* Line 129: currentMonitoredConsumerMu.RLock() returns once no writer holds the
\* mutex.
ReportRLock(j) ==
    /\ rep[j].pc = "idle"
    /\ InTurn(rep, j)
    /\ currentMonitoredConsumerMu.writer = 0
    /\ currentMonitoredConsumerMu' =
          [currentMonitoredConsumerMu EXCEPT !.readers = @ \cup {j}]
    /\ SetRep(j, [rep[j] EXCEPT !.pc = "read"])
    /\ UNCHANGED <<counters, currentMonitoredConsumer, installLog, reg, call>>

\* Line 130: c := currentMonitoredConsumer (idx: how many assignments the slot
\* has seen at this read).
ReportRead(j) ==
    /\ rep[j].pc = "read"
    /\ SetRep(j, [rep[j] EXCEPT !.pc = "runlock", !.c = currentMonitoredConsumer,
                     !.idx = Len(installLog)])
    /\ UNCHANGED <<counters, currentMonitoredConsumer, currentMonitoredConsumerMu,
                   installLog, reg, call>>

\* Mutant: the read lock is released by a `defer`, that is not before the report
\* has been written.
ReportRUnlockDeferred(j) ==
    /\ rep[j].pc = "runlock"
    /\ SetRep(j, [rep[j] EXCEPT !.pc = IF rep[j].c # NoConsumer THEN "start" ELSE "done"])
    /\ UNCHANGED <<counters, currentMonitoredConsumer, currentMonitoredConsumerMu,
                   installLog, reg, call>>

\* Mutant: the nil check is missing.
ReportRUnlockNoNilCheck(j) ==
    /\ rep[j].pc = "runlock"
    /\ currentMonitoredConsumerMu' =
          [currentMonitoredConsumerMu EXCEPT !.readers = @ \ {j}]
    /\ SetRep(j, [rep[j] EXCEPT !.pc = "start"])
    /\ UNCHANGED <<counters, currentMonitoredConsumer, installLog, reg, call>>

\* Lines 131-134: RUnlock(); with c # nil go on into c.collectMetricsMonitoring,
\* otherwise return.
ReportRUnlock(j) ==
    /\ rep[j].pc = "runlock"
    /\ currentMonitoredConsumerMu' =
          [currentMonitoredConsumerMu EXCEPT !.readers = @ \ {j}]
    /\ SetRep(j, [rep[j] EXCEPT !.pc = IF rep[j].c # NoConsumer THEN "start" ELSE "done"])
    /\ UNCHANGED <<counters, currentMonitoredConsumer, installLog, reg, call>>

\* Line 108: V.OnRegistryStart().
VisitStart(j) ==
    /\ rep[j].pc = "start"
    /\ SetRep(j, [rep[j] EXCEPT !.pc = "finish",
                     !.out = Append(@, Marker("OnRegistryStart"))])
    /\ UNCHANGED <<counters, currentMonitoredConsumer, currentMonitoredConsumerMu,
                   installLog, reg, call>>

\* Line 109: V.OnRegistryFinished().
VisitFinished(j) ==
    /\ rep[j].pc = "finish"
    /\ SetRep(j, [rep[j] EXCEPT !.pc = "stats",
                     !.out = Append(@, Marker("OnRegistryFinished"))])
    /\ UNCHANGED <<counters, currentMonitoredConsumer, currentMonitoredConsumerMu,
                   installLog, reg, call>>

\* Mutant: Stats() is called on whatever the slot holds at the time of the call.
ReportStatsOfSlot(j) ==
    /\ rep[j].pc = "stats"
    /\ \E s \in StatsSnapshots :
          SetRep(j, IF currentMonitoredConsumer = NoConsumer
                    THEN [rep[j] EXCEPT !.pc = "panicked"]
                    ELSE [rep[j] EXCEPT !.pc = "namespace",
                             !.statsOf = currentMonitoredConsumer, !.stats = <<s>>])
    /\ UNCHANGED <<counters, currentMonitoredConsumer, currentMonitoredConsumerMu,
                   installLog, reg, call>>

\* Line 111: stats := c.consumer.Stats(), called on the downstream consumer of
\* the local c; with c nil the dereference panics.
ReportStats(j) ==
    /\ rep[j].pc = "stats"
    /\ \E s \in StatsSnapshots :
          SetRep(j, IF rep[j].c = NoConsumer
                    THEN [rep[j] EXCEPT !.pc = "panicked"]
                    ELSE [rep[j] EXCEPT !.pc = "namespace", !.statsOf = rep[j].c,
                             !.stats = <<s>>])
    /\ UNCHANGED <<counters, currentMonitoredConsumer, currentMonitoredConsumerMu,
                   installLog, reg, call>>

\* Lines 112-114: the namespace "consumer" with the int "unsupported_dropped".
ReportNamespace(j) ==
    /\ rep[j].pc = "namespace"
    /\ SetRep(j, [rep[j] EXCEPT !.pc = "done",
                     !.out = Append(@, IntInNamespace("consumer", "unsupported_dropped",
                                          rep[j].stats[1].UnsupportedMetricsDropped))])
    /\ UNCHANGED <<counters, currentMonitoredConsumer, currentMonitoredConsumerMu,
                   installLog, reg, call>>

monitoredConsumerCollectMetricsMonitoring(j) ==
    \/ VisitStart(j)
    \/ VisitFinished(j)
    \/ ReportStats(j)
    \/ ReportNamespace(j)

collectMetricsMonitoring(j) ==
    \/ ReportRLock(j)
    \/ ReportRead(j)
    \/ ReportRUnlock(j)
    \/ monitoredConsumerCollectMetricsMonitoring(j)

(***************************************************************************)
(* The system                                                              *)
(***************************************************************************)

\* Everything at once.
Next ==
    \/ \E r \in Regs : RegisterGRPCServices(r)
    \/ \E i \in Calls : ConsumeTraces(i)
    \/ \E i \in Calls : ConsumeMetrics(i)
    \/ \E j \in Reports : collectMetricsMonitoring(j)

Spec == Init /\ [][Next]_vars

\* A registration that is made after the one before it has returned and that
\* the receiver framework accepts.
RegisterAccepted(r) ==
    /\ IF r = 1 THEN TRUE ELSE reg[r - 1].pc = "done" \/ reg[r].pc # "idle"
    /\ RegisterGRPCServices(r)
    /\ reg'[r].result \in {Unset, NoError}

\* The consume path: the servers are registered one after the other, and their
\* consumers serve calls; no report runs.
NextConsume ==
    \/ \E r \in Regs : RegisterAccepted(r)
    \/ \E i \in Calls : ConsumeTraces(i)
    \/ \E i \in Calls : ConsumeMetrics(i)

SpecConsume == Init /\ [][NextConsume]_vars

\* The consume path under a fair scheduler: the steps of a call that follow the
\* return of the downstream invocation (atomic increments, the log record, the
\* deferred increment, the return) do not block, so a call that can take one does.
\* Nothing is assumed of the receivers (a call may never start) nor of the
\* downstream consumer (an invocation may never return).
ConsumeFairness ==
    \A i \in Calls :
        /\ WF_vars(ConsumeTracesCount(i))
        /\ WF_vars(ConsumeTracesReturn(i))
        /\ WF_vars(ConsumeMetricsCount(i))
        /\ WF_vars(ConsumeMetricsReturn(i))

\* The calls that one consumer, registered once, receives.
NextServe ==
    \/ RegisterAccepted(1)
    \/ \E i \in Calls : ConsumeTraces(i)
    \/ \E i \in Calls : ConsumeMetrics(i)

SpecServeFair == Init /\ [][NextServe]_vars /\ ConsumeFairness

\* The snapshot path: registrations and reports, with no call in flight.
NextReport ==
    \/ \E r \in Regs : RegisterGRPCServices(r)
    \/ \E j \in Reports : collectMetricsMonitoring(j)

SpecReport == Init /\ [][NextReport]_vars

\* The lock under downstream calls that do not return: the servers are registered
\* one after the other, consume calls enter and stay inside their downstream
\* call, reports run.
NextLock ==
    \/ \E r \in Regs : RegisterAccepted(r)
    \/ \E i \in Calls : \E c \in Regs : ConsumeTracesEnter(i, c)
    \/ \E i \in Calls : \E c \in Regs : ConsumeMetricsEnter(i, c)
    \/ \E j \in Reports : collectMetricsMonitoring(j)

SpecLock == Init /\ [][NextLock]_vars

(***************************************************************************)
(* Properties of the consume path (SpecConsume)                            *)
(***************************************************************************)

Methods == {"ConsumeTraces", "ConsumeMetrics"}
MapOf(m) == IF m = "ConsumeTraces" THEN gRPCTracesMonitoringMap ELSE gRPCMetricsMonitoringMap
OtherMapOf(m) == IF m = "ConsumeTraces" THEN gRPCMetricsMonitoringMap ELSE gRPCTracesMonitoringMap
CallsOf(m) == {i \in Calls : call[i].method = m}
Occurrences(seq, x) == Cardinality({k \in DOMAIN seq : seq[k] = x})

\* C1: once all N calls of one kind have returned, K of them with an error of
\* the downstream consumer and N-K without, that kind's counters are
\* RequestCount = N, ResponseCount = N, ResponseErrorsCount = K and
\* ResponseValidCount = N-K, whatever the interleaving was.
C1_FinalCounts ==
    \A m \in Methods :
        LET S == CallsOf(m)
            F == {i \in S : call[i].err # NoError}
        IN  (\A i \in S : call[i].pc = "done") =>
               /\ counters[MapOf(m)]["RequestCount"] = Cardinality(S)
               /\ counters[MapOf(m)]["ResponseCount"] = Cardinality(S)
               /\ counters[MapOf(m)]["ResponseErrorsCount"] = Cardinality(F)
               /\ counters[MapOf(m)]["ResponseValidCount"] = Cardinality(S \ F)

\* Two calls of one kind have returned, one with an error and one without.
C1_Witness ==
    \E m \in Methods : \E i, k \in CallsOf(m) :
        /\ \A n \in CallsOf(m) : call[n].pc = "done"
        /\ call[i].err \in Errors
        /\ call[k].err = NoError
        /\ counters[MapOf(m)]["ResponseErrorsCount"] = 1

\* C2: every call that has ended, by returning or by a panic of the downstream
\* consumer, has incremented RequestCount once, ResponseCount once and exactly
\* one of ResponseErrorsCount and ResponseValidCount once.
C2_ExactlyOnce ==
    \A i \in Calls :
        call[i].pc \in {"done", "panicked"} =>
           /\ Occurrences(call[i].events, "RequestCount") = 1
           /\ Occurrences(call[i].events, "ResponseCount") = 1
           /\ Occurrences(call[i].events, "ResponseErrorsCount")
                 + Occurrences(call[i].events, "ResponseValidCount") = 1

\* C3: a call returns exactly what its downstream call returned: the same error,
\* or no error.
C3_ResultIsDownstreamResult ==
    \A i \in Calls : call[i].pc \in {"return", "done"} => call[i].ret = call[i].err

\* One call has returned the error of its downstream call, another no error.
C3_Witness ==
    \E i, k \in Calls :
        /\ call[i].pc = "done" /\ call[i].err \in Errors /\ call[i].ret = call[i].err
        /\ call[k].pc = "done" /\ call[k].err = NoError /\ call[k].ret = NoError

\* C5, as stated: once B has replaced A in the slot, the counts that A's calls
\* have accumulated stay as they are whatever the calls served by B do.
C5_FrozenAfterReplacement ==
    [][\A i \in Calls :
          ( /\ Len(installLog) >= 2
            /\ call'[i] # call[i]
            /\ call'[i].c = installLog[Len(installLog)]
            /\ \E k \in Calls : call[k].c = installLog[1] /\ call[k].pc = "done" )
          => counters' = counters]_vars

\* C5, amended: the counters belong to the process, not to a consumer: each
\* counter of a kind is the total over the calls of that kind served by any
\* consumer, replaced or current; a registration changes none of them.
C5_SharedCounters ==
    \A m \in Methods :
        LET S == CallsOf(m) IN
        /\ counters[MapOf(m)]["RequestCount"] = Cardinality(S)
        /\ counters[MapOf(m)]["ResponseCount"] =
              Cardinality({i \in S : call[i].pc \in {"done", "panicked"}})
        /\ counters[MapOf(m)]["ResponseErrorsCount"] =
              Cardinality({i \in S : call[i].pc \in {"return", "done"}
                                       /\ call[i].err # NoError})
        /\ counters[MapOf(m)]["ResponseValidCount"] =
              Cardinality({i \in S : call[i].pc \in {"return", "done"}
                                       /\ call[i].err = NoError})

\* B has replaced A, a call served by A and a call of the same kind served by B
\* have returned, and the kind's RequestCount holds both.
C5_Witness ==
    /\ Len(installLog) >= 2
    /\ \E m \in Methods : \E i, k \in CallsOf(m) :
          /\ call[i].c = installLog[1] /\ call[i].pc = "done"
          /\ call[k].c = installLog[2] /\ call[k].pc = "done"
          /\ call[k].c = currentMonitoredConsumer
          /\ counters[MapOf(m)]["RequestCount"] = 2

\* C8: a step of a ConsumeTraces call leaves the four counters of the metrics
\* group as they are, and a step of a ConsumeMetrics call those of the traces
\* group.
C8_GroupsIndependent ==
    [][\A i \in Calls :
          call'[i] # call[i] =>
             counters'[OtherMapOf(call'[i].method)] = counters[OtherMapOf(call'[i].method)]]_vars

\* A traces call and a metrics call have both returned, each counted in its group.
C8_Witness ==
    /\ \E i \in CallsOf("ConsumeTraces") : call[i].pc = "done"
    /\ \E i \in CallsOf("ConsumeMetrics") : call[i].pc = "done"
    /\ counters[gRPCTracesMonitoringMap]["ResponseCount"] = 1
    /\ counters[gRPCMetricsMonitoringMap]["ResponseCount"] = 1

\* The place of an event in a call.
Rank(e) ==
    CASE e = "RequestCount" -> 1
      [] e = "downstream" -> 2
      [] e \in {"ResponseErrorsCount", "ResponseValidCount"} -> 3
      [] e = "ResponseCount" -> 4
      [] e \in {"return", "panic"} -> 5

\* C10: the events of a call come in the order RequestCount increment, downstream
\* invocation, error or valid increment, ResponseCount increment, return; a call
\* that has returned has been through all five.
C10_OrderInCall ==
    \A i \in Calls :
        LET ev == call[i].events IN
        /\ \A p, q \in DOMAIN ev : p < q => Rank(ev[p]) < Rank(ev[q])
        /\ call[i].pc = "done" => Len(ev) = 5

\* A call that failed downstream has returned.
C10_Witness ==
    \E i \in Calls :
        call[i].events = <<"RequestCount", "downstream", "ResponseErrorsCount",
                           "ResponseCount", "return">>

(***************************************************************************)
(* Properties of registration and of the snapshot path (SpecReport)        *)
(***************************************************************************)

TraceMessage == "failed to register OTLP trace receiver"
MetricsMessage == "failed to register OTLP metrics receiver"

\* What a complete report of a snapshot s tells the visitor.
FullReport(s) ==
    <<Marker("OnRegistryStart"), Marker("OnRegistryFinished"),
      IntInNamespace("consumer", "unsupported_dropped", s.UnsupportedMetricsDropped)>>

\* C4: once B has been assigned to the slot after A and nothing after B, a report
\* that read the slot after B's assignment has called Stats() of B's downstream
\* consumer, not of A's, and has written the value that call returned.
C4_LastWriteWins ==
    \A j \in Reports :
        ( /\ rep[j].pc = "done"
          /\ Len(installLog) >= 2
          /\ rep[j].idx = Len(installLog) )
        => /\ rep[j].statsOf = installLog[Len(installLog)]
           /\ rep[j].statsOf # installLog[Len(installLog) - 1]
           /\ rep[j].statsOf = currentMonitoredConsumer
           /\ rep[j].out = FullReport(rep[j].stats[1])

\* A report made after A and then B were assigned has written B's stats.
C4_Witness ==
    \E j \in Reports :
        /\ rep[j].pc = "done"
        /\ Len(installLog) = 2
        /\ rep[j].idx = 2
        /\ \A r \in Regs : reg[r].pc \in {"idle", "done"}
        /\ rep[j].statsOf = installLog[2]
        /\ rep[j].out = FullReport([UnsupportedMetricsDropped |-> MaxStat])

\* C6: a report that found the slot empty writes nothing to the visitor, calls
\* no Stats() and ends without a panic.
C6_EmptySlot ==
    \A j \in Reports :
        (rep[j].pc \notin {"idle", "read"} /\ rep[j].c = NoConsumer)
        => /\ rep[j].pc \in {"runlock", "done"}
           /\ rep[j].out = <<>>
           /\ rep[j].stats = <<>>
           /\ rep[j].statsOf = NoConsumer

\* A report has run to its end before any consumer was assigned to the slot.
C6_Witness ==
    \E j \in Reports :
        /\ rep[j].pc = "done"
        /\ rep[j].c = NoConsumer
        /\ installLog = <<>>

\* C7: a failed trace registration is returned as its cause under the trace
\* message and the metrics registration is not attempted; a failed metrics
\* registration is returned as its cause under the metrics message; nil is
\* returned only when both registrations succeeded.
C7_RegistrationErrors ==
    \A r \in Regs :
        /\ reg[r].traceErr \in Errors =>
              /\ reg[r].pc = "done"
              /\ reg[r].result = <<TraceMessage>> \o reg[r].traceErr
              /\ reg[r].metricsErr = Unset
        /\ reg[r].metricsErr \in Errors =>
              /\ reg[r].pc = "done"
              /\ reg[r].traceErr = NoError
              /\ reg[r].result = <<MetricsMessage>> \o reg[r].metricsErr
        /\ reg[r].result = NoError <=>
              (reg[r].traceErr = NoError /\ reg[r].metricsErr = NoError)
        /\ reg[r].pc = "done" <=> reg[r].result # Unset

\* One registration failed at the trace receiver, another at the metrics receiver.
C7_Witness ==
    \E r, q \in Regs :
        /\ reg[r].pc = "done" /\ reg[r].traceErr \in Errors
        /\ reg[q].pc = "done" /\ reg[q].metricsErr \in Errors

\* C9: by the time a report has read the slot it has opened the report
\* section (start and finish marker), and with an empty slot it has written the
\* two markers and nothing else.
C9_MarkersBeforeRead ==
    \A j \in Reports :
        /\ rep[j].pc \notin {"idle", "read"} =>
              /\ Len(rep[j].out) >= 2
              /\ rep[j].out[1] = Marker("OnRegistryStart")
              /\ rep[j].out[2] = Marker("OnRegistryFinished")
        /\ (rep[j].pc = "done" /\ rep[j].c = NoConsumer) => Len(rep[j].out) = 2

(***************************************************************************)
(* Properties of the lock                                                  *)
(***************************************************************************)

\* C11: the mutex is held only inside the two short critical sections: by a
\* report between RLock and RUnlock (the copy of the slot), never while it calls
\* Stats(); by a setter between Lock and Unlock (the assignment); never by a
\* consume call.  So a registration that waits for the lock can take it unless a
\* report or a setter is inside its critical section, whatever the downstream
\* calls in flight do.
C11_LockNotHeldAcrossDownstream ==
    /\ \A j \in Reports :
          j \in currentMonitoredConsumerMu.readers <=> rep[j].pc \in {"read", "runlock"}
    /\ \A r \in Regs :
          currentMonitoredConsumerMu.writer = r <=> reg[r].pc \in {"assign", "unlock"}
    /\ currentMonitoredConsumerMu.writer \in {0} \cup Regs
    /\ currentMonitoredConsumerMu.readers \subseteq Reports
    /\ \A r \in Regs :
          ( /\ reg[r].pc = "lock"
            /\ \A q \in Regs : reg[q].pc \notin {"assign", "unlock"}
            /\ \A j \in Reports : rep[j].pc \notin {"read", "runlock"} )
          => ENABLED setCurrentLock(r)

\* A registration waits for the lock and can take it while a report is at its
\* Stats() call and a consume call is inside its downstream call.
C11_Witness ==
    \E r \in Regs, j \in Reports, i \in Calls :
        /\ reg[r].pc = "lock"
        /\ rep[j].pc = "stats"
        /\ call[i].pc = "invoke"
        /\ ENABLED setCurrentLock(r)

(***************************************************************************)
(* Further properties of the consume path (SpecConsume)                    *)
(***************************************************************************)

\* C12: in a state in which no call of a kind is in flight (every call of the kind
\* that was started has ended), the kind's counters satisfy
\* ResponseCount = ResponseErrorsCount + ResponseValidCount = RequestCount.
C12_QuiescentBalance ==
    \A m \in Methods :
        (\A i \in CallsOf(m) : call[i].pc \in {"done", "panicked"}) =>
           /\ counters[MapOf(m)]["ResponseCount"] =
                 counters[MapOf(m)]["ResponseErrorsCount"]
                    + counters[MapOf(m)]["ResponseValidCount"]
           /\ counters[MapOf(m)]["ResponseCount"] = counters[MapOf(m)]["RequestCount"]

\* C13: a call invokes its downstream method exactly once, with the context and
\* the payload it was given, whatever the downstream outcome; a downstream error
\* is not retried and reaches the caller in exactly one return.
C13_OneDownstreamInvocation ==
    \A i \in Calls :
        /\ call[i].pc \in {"idle", "invoke"} => call[i].down = <<>>
        /\ call[i].pc \notin {"idle", "invoke"} =>
              /\ call[i].down = <<[ctx |-> Context(i), data |-> call[i].data]>>
              /\ call[i].data = Payload(IF call[i].method = "ConsumeTraces"
                                         THEN "traces" ELSE "metrics", i)
              /\ Occurrences(call[i].events, "downstream") = 1
        /\ call[i].pc = "done" =>
              /\ Occurrences(call[i].events, "return") = 1
              /\ call[i].events[Len(call[i].events)] = "return"
              /\ call[i].ret = call[i].err
        /\ call[i].pc # "done" => Occurrences(call[i].events, "return") = 0

\* A traces call and a metrics call have both returned a downstream error.
C13_Witness ==
    \E i, k \in Calls :
        /\ call[i].pc = "done" /\ call[i].method = "ConsumeTraces"
        /\ call[i].err \in Errors
        /\ call[k].pc = "done" /\ call[k].method = "ConsumeMetrics"
        /\ call[k].err \in Errors
        /\ Len(call[i].down) = 1 /\ Len(call[k].down) = 1

\* Calls of a kind that have incremented RequestCount and not yet ResponseCount,
\* as the counters show them.
InFlight(m) ==
    counters[MapOf(m)]["RequestCount"] - counters[MapOf(m)]["ResponseCount"]

\* C14: under a fair scheduler a call whose downstream invocation has returned
\* goes on to increment ResponseCount and to return to its caller; and if from
\* some point on no downstream invocation is pending (none is started any more
\* and all have ended), the in-flight count of each kind settles at zero.
C14_EventuallyReturns ==
    /\ \A i \in Calls :
          (call[i].pc = "returned") ~>
             (call[i].pc = "done" /\ Occurrences(call[i].events, "ResponseCount") = 1)
    /\ (<>[](\A i \in Calls : call[i].pc # "invoke"))
          => <>[](\A m \in Methods : InFlight(m) = 0)

\* Two calls were in flight at once with their downstream results in hand, one an
\* error and one a success, and neither has been counted yet.
C14_Witness ==
    \E i, k \in Calls :
        /\ call[i].pc = "returned" /\ call[i].err \in Errors
        /\ call[k].pc = "returned" /\ call[k].err = NoError
        /\ InFlight(call[i].method) >= 1 /\ InFlight(call[k].method) >= 1

\* The calls of a kind that have incremented RequestCount and not yet ResponseCount.
Pending(m) ==
    {i \in CallsOf(m) : /\ Occurrences(call[i].events, "RequestCount") = 1
                        /\ Occurrences(call[i].events, "ResponseCount") = 0}

C16_Bounds ==
    \A m \in Methods :
        /\ (\A i \in CallsOf(m) : call[i].err # Panic) =>
              /\ counters[MapOf(m)]["ResponseCount"] <=
                    counters[MapOf(m)]["ResponseErrorsCount"]
                       + counters[MapOf(m)]["ResponseValidCount"]
              /\ counters[MapOf(m)]["ResponseErrorsCount"]
                    + counters[MapOf(m)]["ResponseValidCount"]
                       <= counters[MapOf(m)]["RequestCount"]
        /\ InFlight(m) = Cardinality(Pending(m))
        /\ InFlight(m) >= 0

C16_NoDecrease ==
    \A m \in Methods : \A k \in monitoringKeys :
        counters'[MapOf(m)][k] >= counters[MapOf(m)][k]

\* C16: in every state, for each kind none of whose downstream invocations has
\* panicked, ResponseCount <= ResponseErrorsCount + ResponseValidCount <=
\* RequestCount; RequestCount - ResponseCount is the number of calls of the kind
\* that have incremented RequestCount and not yet ResponseCount, never negative;
\* and no step decreases a counter.
C16_CounterOrder == []C16_Bounds /\ [][C16_NoDecrease]_vars

\* Of two calls of one kind, neither panicking, one has counted its outcome and
\* not yet its response and the other awaits its downstream result: both
\* inequalities are strict.
C16_Witness ==
    \E m \in Methods :
        /\ \A i \in CallsOf(m) : call[i].err # Panic
        /\ \E i, k \in CallsOf(m) : call[i].pc = "return" /\ call[k].pc = "invoke"
        /\ counters[MapOf(m)]["ResponseCount"] <
              counters[MapOf(m)]["ResponseErrorsCount"]
                 + counters[MapOf(m)]["ResponseValidCount"]
        /\ counters[MapOf(m)]["ResponseErrorsCount"]
              + counters[MapOf(m)]["ResponseValidCount"]
                 < counters[MapOf(m)]["RequestCount"]
        /\ InFlight(m) = 2

(***************************************************************************)
(* Further properties of registration and reports (SpecReport)             *)
(***************************************************************************)

Installed(r) == \E k \in DOMAIN installLog : installLog[k] = r

\* C15: a registration assigns its consumer to the slot before it attempts the
\* trace or the metrics registration and nothing takes the assignment back: the
\* slot always holds the consumer assigned last, also when that consumer's
\* registration has returned an error, and a report that reads the slot then
\* writes that consumer's stats.
C15_FailedRegistrationStaysInstalled ==
    /\ \A r \in Regs :
          /\ reg[r].pc \in {"regTrace", "regMetrics", "done"} => Installed(r)
          /\ ~Installed(r) => reg[r].traceErr = Unset /\ reg[r].metricsErr = Unset
    /\ currentMonitoredConsumer =
          IF installLog = <<>> THEN NoConsumer ELSE installLog[Len(installLog)]
    /\ \A r \in Regs :
          ( /\ reg[r].pc = "done" /\ reg[r].result # NoError
            /\ installLog[Len(installLog)] = r )
          => currentMonitoredConsumer = r
    /\ \A j \in Reports :
          (rep[j].pc = "done" /\ rep[j].idx >= 1) =>
             /\ rep[j].statsOf = installLog[rep[j].idx]
             /\ rep[j].out = FullReport(rep[j].stats[1])

\* The first registration succeeded, the second returned an error, and a report
\* that began afterwards has written the stats of the second consumer.
C15_Witness ==
    \E j \in Reports :
        /\ installLog = <<1, 2>>
        /\ reg[1].pc = "done" /\ reg[1].result = NoError
        /\ reg[2].pc = "done" /\ reg[2].result # NoError
        /\ currentMonitoredConsumer = 2
        /\ rep[j].pc = "done" /\ rep[j].idx = 2 /\ rep[j].statsOf = 2
        /\ rep[j].out = FullReport(rep[j].stats[1])

C17_OneConsumer ==
    \A j \in Reports :
        /\ rep[j].pc \in {"namespace", "done"} /\ rep[j].idx >= 1
              => rep[j].statsOf # NoConsumer
        /\ rep[j].statsOf # NoConsumer =>
              /\ rep[j].statsOf = rep[j].c
              /\ rep[j].idx >= 1
              /\ rep[j].statsOf = installLog[rep[j].idx]
              /\ \A k \in (rep[j].idx + 1) .. Len(installLog) :
                    installLog[k] # rep[j].statsOf
        /\ Cardinality({k \in DOMAIN rep[j].out : rep[j].out[k].ev = "ReportInt"})
              = IF rep[j].pc = "done" /\ rep[j].idx >= 1 THEN 1 ELSE 0

C17_StatsCall ==
    \A j \in Reports :
        (rep[j].pc = "stats" /\ rep'[j].pc = "namespace") =>
           /\ rep'[j].statsOf = installLog[rep[j].idx]
           /\ rep[j].idx < Len(installLog) => rep'[j].statsOf # currentMonitoredConsumer

\* C17: a report writes the stats of exactly one consumer, the one the slot held
\* at the report's read under the read lock: a consumer that was current during
\* the report and never one assigned after the read; the Stats() call is made on
\* that consumer also when the slot has been assigned again since the read.
C17_ReportsConsumerOfLockedRead == []C17_OneConsumer /\ [][C17_StatsCall]_vars

\* A registration has assigned the slot between a report's read and its Stats()
\* call: the report has released the lock and written its markers, and the
\* Stats() call it is about to make is on the replaced consumer.
C17_Witness ==
    \E j \in Reports :
        /\ rep[j].pc = "stats"
        /\ rep[j].idx = 1 /\ Len(installLog) = 2
        /\ rep[j].c = installLog[1]
        /\ rep[j].c # currentMonitoredConsumer
        /\ rep[j].out = <<Marker("OnRegistryStart"), Marker("OnRegistryFinished")>>
        /\ ENABLED ReportStats(j)

====
